---- MODULE Spec2Model ----
(***************************************************************************)
(* State-machine model of the inventory backend in src/backend/app.py:     *)
(* the item store, the stock ledger (adjust_stock, POST /api/receipts),    *)
(* the receipt log and the invoice engine with its totals.                 *)
(*                                                                         *)
(* Conventions                                                             *)
(*  - A handler is one action that takes the request's inputs as           *)
(*    parameters; the specifications below draw them from small sets.      *)
(*  - An id string is an integer: n >= 1 is a well-formed ObjectId,        *)
(*    NoId is an absent/empty string, BadId a string ObjectId() rejects.   *)
(*  - A JSON value that the code coerces with int()/float() is a record    *)
(*    [kind, v]: absent key, a number v, or a non-numeric value.           *)
(*  - Money is counted in cents, rates in whole percent.                   *)
(*  - Item documents carry name, sku and quantity; the other item fields   *)
(*    are stored verbatim by the code and read by none of the operations   *)
(*    modelled here.                                                       *)
(*  - Every record constructor lists its fields in one fixed order, the    *)
(*    order in which the names first occur in this module, which is the    *)
(*    order TLC keeps records in.                                          *)
(***************************************************************************)
EXTENDS Integers, Sequences, FiniteSets, TLC

(***************************************************************************)
(* Bounds of the model.                                                    *)
(***************************************************************************)
MaxOid == 3
MaxQty == 2
MaxReceipts == 1
MaxInv == 1
MaxListed == 3
MaxClock == 3

VARIABLES
    items,      \* items_col: ObjectId -> item document
    issued,     \* number of ObjectIds handed out by items_col.insert_one
    receipts,   \* receipts_col, in insertion order
    invoices,   \* invoices_col, in insertion order (the index is the _id)
    now,        \* the latest reading of datetime.utcnow()
    request,    \* the request being answered: [op, id, data]
    response,   \* its answer: [status, body]
    inflight    \* the handler calls in progress, one per server thread

vars == <<items, issued, receipts, invoices, now, request, response, inflight>>

(***************************************************************************)
(* Input encodings.                                                        *)
(***************************************************************************)
NoId == 0
BadId == -1

Absent == [kind |-> "absent", v |-> 0]
Bad == [kind |-> "bad", v |-> 0]
Num(n) == [kind |-> "num", v |-> n]

\* ObjectId(s) succeeds
IsObjectId(s) == s >= 1

\* int(x or 0) / float(x or 0): an absent key, None and 0 all read as 0
Coercible(j) == j.kind # "bad"
OrZero(j) == IF j.kind = "num" THEN j.v ELSE 0

\* str.strip() on the name strings of the model: " " is whitespace only
Strip(s) == IF s = " " THEN "" ELSE s

\* x or None, for the actor labels
OrNone(s) == IF s = "" THEN <<>> ELSE <<s>>

\* max(0, q)
Max0(q) == IF q < 0 THEN 0 ELSE q

\* doc_to_dict: the stored document with its _id promoted to "id"
doc_to_dict(id, doc) == [id |-> id, name |-> doc.name, sku |-> doc.sku,
                         quantity |-> doc.quantity]

Error(msg) == [error |-> msg]

\* the answer to a request
Answer(op, id, data, status, body) ==
    /\ request' = [id |-> id, op |-> op, data |-> data]
    /\ response' = [status |-> status, body |-> body]

\* the answer of a handler that ran from its first line to its return with
\* no other call in progress
Reply(op, id, data, status, body) ==
    /\ Answer(op, id, data, status, body)
    /\ UNCHANGED inflight

\* the server threads, and the local variables of the call a thread runs:
\* its position pc, the document its find_one returned (found, <<>> for
\* None), the invoice line it is at (cursor), the _id of the receipt it
\* inserted and the printedAt it computed (stamp)
Threads == {1, 2}
Call(op, id, data, pc, found, cursor, inserted, stamp) ==
    [id |-> id, op |-> op, data |-> data, pc |-> pc, found |-> found,
     cursor |-> cursor, inserted |-> inserted, stamp |-> stamp]
Idle == Call("idle", NoId, <<>>, "idle", <<>>, 0, 0, 0)

(***************************************************************************)
(* Construction: seed_items_if_empty on an empty store.  The demo          *)
(* quantities (150, 25, ...) are scaled into the quantity bound.           *)
(***************************************************************************)
SeedItems == <<[name |-> "n1", sku |-> "s1", quantity |-> 2],
               [name |-> "n2", sku |-> "", quantity |-> 1]>>

Init ==
    /\ items = [i \in 1..Len(SeedItems) |-> SeedItems[i]]
    /\ issued = Len(SeedItems)
    /\ receipts = <<>>
    /\ invoices = <<>>
    /\ now = 0
    /\ request = [id |-> NoId, op |-> "start", data |-> <<>>]
    /\ response = [status |-> 0, body |-> <<>>]
    /\ inflight = [c \in Threads |-> Idle]

\* items_col.update_one({"_id": oid}, {"$set": fields}) on an existing oid
SetQuantity(its, oid, q) == [its EXCEPT ![oid].quantity = q]

(***************************************************************************)
(* Items / inventory                                                       *)
(***************************************************************************)
create_item(data) ==
    LET name == Strip(data.name) IN
    IF name = "" THEN
        /\ Reply("create_item", NoId, data, 400, Error("Missing or empty 'name'"))
        /\ UNCHANGED <<items, issued, receipts, invoices, now>>
    ELSE IF ~Coercible(data.quantity) THEN
        /\ Reply("create_item", NoId, data, 400, Error("Bad numeric field"))
        /\ UNCHANGED <<items, issued, receipts, invoices, now>>
    ELSE
        LET oid == issued + 1
            item == [name |-> name, sku |-> data.sku,
                     quantity |-> OrZero(data.quantity)] IN
        /\ items' = [i \in DOMAIN items \cup {oid} |->
                        IF i = oid THEN item ELSE items[i]]
        /\ issued' = oid
        /\ Reply("create_item", NoId, data, 201, doc_to_dict(oid, item))
        /\ UNCHANGED <<receipts, invoices, now>>

get_item(item_id) ==
    /\ IF ~IsObjectId(item_id) THEN
           Reply("get_item", item_id, <<>>, 400, Error("Invalid item id"))
       ELSE IF item_id \notin DOMAIN items THEN
           Reply("get_item", item_id, <<>>, 404, Error("Item not found"))
       ELSE
           Reply("get_item", item_id, <<>>, 200, doc_to_dict(item_id, items[item_id]))
    /\ UNCHANGED <<items, issued, receipts, invoices, now>>

\* data: [name, sku: <<>> or <<string>>; quantity: JSON value]
update_item(item_id, data) ==
    LET has_name == data.name # <<>>
        has_sku == data.sku # <<>>
        has_qty == data.quantity.kind # "absent"
        updated(doc) ==
            [name |-> IF has_name THEN data.name[1] ELSE doc.name,
             sku |-> IF has_sku THEN data.sku[1] ELSE doc.sku,
             quantity |-> IF has_qty THEN data.quantity.v ELSE doc.quantity]
    IN
    IF ~IsObjectId(item_id) THEN
        /\ Reply("update_item", item_id, data, 400, Error("Invalid item id"))
        /\ UNCHANGED <<items, issued, receipts, invoices, now>>
    ELSE IF has_qty /\ ~Coercible(data.quantity) THEN
        \* int(value) raises and nothing catches it
        /\ Reply("update_item", item_id, data, 500, Error("Internal Server Error"))
        /\ UNCHANGED <<items, issued, receipts, invoices, now>>
    ELSE IF ~(has_name \/ has_sku \/ has_qty) THEN
        /\ Reply("update_item", item_id, data, 400, Error("Nothing to update"))
        /\ UNCHANGED <<items, issued, receipts, invoices, now>>
    ELSE IF item_id \notin DOMAIN items THEN
        /\ Reply("update_item", item_id, data, 404, Error("Item not found"))
        /\ UNCHANGED <<items, issued, receipts, invoices, now>>
    ELSE
        /\ items' = [items EXCEPT ![item_id] = updated(items[item_id])]
        /\ Reply("update_item", item_id, data, 200,
                 doc_to_dict(item_id, updated(items[item_id])))
        /\ UNCHANGED <<issued, receipts, invoices, now>>

delete_item_cascades(item_id) ==
    IF ~IsObjectId(item_id) THEN
        /\ Reply("delete_item", item_id, <<>>, 400, Error("Invalid item id"))
        /\ UNCHANGED <<items, issued, receipts, invoices, now>>
    ELSE IF item_id \notin DOMAIN items THEN
        /\ Reply("delete_item", item_id, <<>>, 404, Error("Item not found"))
        /\ UNCHANGED <<items, issued, receipts, invoices, now>>
    ELSE
        LET Kept(r) == r.itemId # item_id IN
        /\ items' = [i \in DOMAIN items \ {item_id} |-> items[i]]
        /\ receipts' = SelectSeq(receipts, Kept)
        /\ Reply("delete_item", item_id, <<>>, 200, [status |-> "ok"])
        /\ UNCHANGED <<issued, invoices, now>>
\* DELETE /api/items/<id>: items_col.delete_one and nothing else
delete_item(item_id) ==
    IF ~IsObjectId(item_id) THEN
        /\ Reply("delete_item", item_id, <<>>, 400, Error("Invalid item id"))
        /\ UNCHANGED <<items, issued, receipts, invoices, now>>
    ELSE IF item_id \notin DOMAIN items THEN
        /\ Reply("delete_item", item_id, <<>>, 404, Error("Item not found"))
        /\ UNCHANGED <<items, issued, receipts, invoices, now>>
    ELSE
        /\ items' = [i \in DOMAIN items \ {item_id} |-> items[i]]
        /\ Reply("delete_item", item_id, <<>>, 200, [status |-> "ok"])
        /\ UNCHANGED <<issued, receipts, invoices, now>>

(***************************************************************************)
(* Stock ledger: POST /api/items/<id>/adjust_stock                         *)
(***************************************************************************)
adjust_new_qty_unclamped(doc, delta) == doc.quantity + delta
\* new_qty = max(0, int(doc.get("quantity") or 0) + delta)
adjust_new_qty(doc, delta) == Max0(doc.quantity + delta)

adjust_records_receipt_on_zero(delta) == delta >= 0
\* if delta > 0:
adjust_records_receipt(delta) == delta > 0

adjust_receipt_doc_wrong_qty(oid, doc, delta, changed_by, t) ==
    [name |-> doc.name, sku |-> doc.sku,
     quantity |-> adjust_new_qty(doc, delta), itemId |-> oid,
     receivedAt |-> t, createdAt |-> t, receivedBy |-> changed_by]
\* the receipt adjust_stock inserts: no previousQuantity / newQuantity keys
adjust_receipt_doc(oid, doc, delta, changed_by, t) ==
    [name |-> doc.name, sku |-> doc.sku, quantity |-> delta,
     itemId |-> oid,
     receivedAt |-> t, createdAt |-> t, receivedBy |-> changed_by]

\* data: [delta: JSON value, changedBy: string]; t: the clock if it is read
adjust_stock(item_id, data, t) ==
    IF ~IsObjectId(item_id) THEN
        /\ Reply("adjust_stock", item_id, data, 400, Error("Invalid item id"))
        /\ UNCHANGED <<items, issued, receipts, invoices, now>>
    ELSE IF ~Coercible(data.delta) THEN
        /\ Reply("adjust_stock", item_id, data, 400, Error("Bad delta value"))
        /\ UNCHANGED <<items, issued, receipts, invoices, now>>
    ELSE IF item_id \notin DOMAIN items THEN
        /\ Reply("adjust_stock", item_id, data, 404, Error("Item not found"))
        /\ UNCHANGED <<items, issued, receipts, invoices, now>>
    ELSE
        LET delta == OrZero(data.delta)
            changed_by == OrNone(data.changedBy)
            doc == items[item_id]
            new_qty == adjust_new_qty(doc, delta)
            updated == SetQuantity(items, item_id, new_qty) IN
        /\ items' = updated
        /\ IF adjust_records_receipt(delta) THEN
               /\ t >= now
               /\ now' = t
               /\ receipts' = Append(receipts,
                      adjust_receipt_doc(item_id, doc, delta, changed_by, t))
           ELSE
               UNCHANGED <<receipts, now>>
        /\ Reply("adjust_stock", item_id, data, 200,
                 doc_to_dict(item_id, updated[item_id]))
        /\ UNCHANGED <<issued, invoices>>

(***************************************************************************)
(* Receiving: POST /api/receipts                                           *)
(***************************************************************************)
receive_rejects_negative_only(qty) == qty < 0
\* if qty <= 0:
receive_rejects(qty) == qty <= 0

receive_receipt_doc_stale(oid, doc, qty, old_qty, new_qty, received_by, t) ==
    [name |-> doc.name, sku |-> doc.sku, quantity |-> qty,
     itemId |-> oid, receivedAt |-> t, createdAt |-> t,
     receivedBy |-> received_by,
     previousQuantity |-> new_qty, newQuantity |-> new_qty]
receive_receipt_doc(oid, doc, qty, old_qty, new_qty, received_by, t) ==
    [name |-> doc.name, sku |-> doc.sku, quantity |-> qty,
     itemId |-> oid, receivedAt |-> t, createdAt |-> t,
     receivedBy |-> received_by,
     previousQuantity |-> old_qty, newQuantity |-> new_qty]

\* the receipt as returned: its _id (the position in the log) promoted to id
receipt_to_dict(id, doc) ==
    [id |-> id, name |-> doc.name, sku |-> doc.sku, quantity |-> doc.quantity,
     itemId |-> doc.itemId, receivedAt |-> doc.receivedAt,
     createdAt |-> doc.createdAt, receivedBy |-> doc.receivedBy,
     previousQuantity |-> doc.previousQuantity, newQuantity |-> doc.newQuantity]

\* data: [itemId: id string, quantity: JSON value, receivedBy: string]
receipts_post(data, t) ==
    IF data.itemId = NoId THEN
        /\ Reply("receipts_post", data.itemId, data, 400, Error("itemId is required"))
        /\ UNCHANGED <<items, issued, receipts, invoices, now>>
    ELSE IF ~IsObjectId(data.itemId) THEN
        /\ Reply("receipts_post", data.itemId, data, 400, Error("Invalid itemId"))
        /\ UNCHANGED <<items, issued, receipts, invoices, now>>
    ELSE IF ~Coercible(data.quantity) THEN
        /\ Reply("receipts_post", data.itemId, data, 400, Error("Bad quantity value"))
        /\ UNCHANGED <<items, issued, receipts, invoices, now>>
    ELSE IF receive_rejects(OrZero(data.quantity)) THEN
        /\ Reply("receipts_post", data.itemId, data, 400, Error("quantity must be > 0"))
        /\ UNCHANGED <<items, issued, receipts, invoices, now>>
    ELSE IF data.itemId \notin DOMAIN items THEN
        /\ Reply("receipts_post", data.itemId, data, 404, Error("Item not found"))
        /\ UNCHANGED <<items, issued, receipts, invoices, now>>
    ELSE
        LET oid == data.itemId
            qty == OrZero(data.quantity)
            doc == items[oid]
            old_qty == doc.quantity
            new_qty == Max0(old_qty + qty)
            updated == SetQuantity(items, oid, new_qty)
            receipt_doc == receive_receipt_doc(oid, doc, qty, old_qty, new_qty,
                                               OrNone(data.receivedBy), t) IN
        /\ t >= now
        /\ now' = t
        /\ items' = updated
        /\ receipts' = Append(receipts, receipt_doc)
        /\ Reply("receipts_post", oid, data, 201,
                 [updatedItem |-> doc_to_dict(oid, updated[oid]),
                  receipt |-> receipt_to_dict(Len(receipts) + 1, receipt_doc)])
        /\ UNCHANGED <<issued, invoices>>

(***************************************************************************)
(* Invoice totals.  Amounts are exact integers: cents for the subtotal,    *)
(* 1/100 cent after one rate has been applied, 1/10000 cent after two.     *)
(***************************************************************************)
RECURSIVE SumLines(_)
\* subtotal += float(l.get("price") or 0) * int(l.get("quantity") or 0)
SumLines(lines) ==
    IF lines = <<>> THEN 0
    ELSE Head(lines).price * Head(lines).quantity + SumLines(Tail(lines))

\* round(x, 2) of an amount x given in 1/unit cents.  The floats of the code
\* are within an ulp of the exact amount, so the nearest cent is returned;
\* on an exact half cent the binary representation decides, and both
\* neighbours are possible.
Round2(x, unit) ==
    LET lo == x \div unit
        rem == x % unit IN
    IF 2 * rem < unit THEN {lo}
    ELSE IF 2 * rem > unit THEN {lo + 1}
    ELSE {lo, lo + 1}

after_dis_unclamped(subtotal, discount100) == subtotal * 100 - discount100
\* after_dis = max(0.0, subtotal - discount_amount), in 1/100 cents
after_dis(subtotal, discount100) == Max0(subtotal * 100 - discount100)

\* the set of dictionaries compute_invoice_totals can return for inv_doc
compute_invoice_totals(inv_doc) ==
    LET subtotal == SumLines(inv_doc.lines)
        tax_rate == inv_doc.taxRate
        discount_rate == inv_doc.discountRate
        discount_amount == subtotal * discount_rate
        after == after_dis(subtotal, discount_amount)
        tax_amount == after * tax_rate
        total == after * 100 + tax_amount
    IN {[subtotal |-> subtotal,
         taxRate |-> tax_rate,
         discountRate |-> discount_rate,
         total |-> to,
         discountAmount |-> d,
         taxAmount |-> ta] :
            d \in Round2(discount_amount, 100),
            ta \in Round2(tax_amount, 10000),
            to \in Round2(total, 10000)}

(***************************************************************************)
(* Sales / invoices                                                        *)
(***************************************************************************)
\* float(l.get("price") or 0) and int(l.get("quantity") or 0) succeed on
\* every line
LinesCoercible(lines) ==
    \A k \in 1..Len(lines) :
        Coercible(lines[k].price) /\ Coercible(lines[k].quantity)

\* one entry of norm_lines; a missing or malformed itemId is stored as None
norm_line(l) ==
    [name |-> l.name,
     sku |-> l.sku,
     quantity |-> OrZero(l.quantity),
     itemId |-> IF IsObjectId(l.itemId) THEN l.itemId ELSE NoId,
     price |-> OrZero(l.price)]

norm_lines(lines) == [k \in 1..Len(lines) |-> norm_line(lines[k])]

line_new_qty_unclamped(doc, line) == doc.quantity - line.quantity
\* new_qty = max(0, int(doc.get("quantity") or 0) - int(line["quantity"] or 0))
line_new_qty(doc, line) == Max0(doc.quantity - line.quantity)

RECURSIVE apply_stock_change(_, _)
\* for line in norm_lines: decrement the item the line resolves to
apply_stock_change(its, lines) ==
    IF lines = <<>> THEN its
    ELSE LET line == Head(lines) IN
         IF line.itemId # NoId /\ line.itemId \in DOMAIN its
         THEN apply_stock_change(
                  SetQuantity(its, line.itemId, line_new_qty(its[line.itemId], line)),
                  Tail(lines))
         ELSE apply_stock_change(its, Tail(lines))

\* doc_to_dict of an invoice, with its totals attached
invoice_to_dict(id, inv, totals) ==
    [id |-> id, lines |-> inv.lines, taxRate |-> inv.taxRate,
     discountRate |-> inv.discountRate, totals |-> totals,
     number |-> inv.number, printedAt |-> inv.printedAt,
     customerName |-> inv.customerName, customerPhone |-> inv.customerPhone,
     createdBy |-> inv.createdBy]

\* data: [number: string, lines: sequence of lines, printedAt: JSON value
\*        (a number is a parseable timestamp), taxRate, discountRate: JSON
\*        values, customerName, customerPhone, createdBy: strings,
\*        applyStockChange: BOOLEAN]
create_invoice_checked(data, t) ==
    IF data.number = "" \/ data.lines = <<>> THEN
        /\ Reply("create_invoice", NoId, data, 400, Error("number and lines are required"))
        /\ UNCHANGED <<items, issued, receipts, invoices, now>>
    ELSE IF \/ ~Coercible(data.taxRate)
            \/ ~Coercible(data.discountRate)
            \/ ~LinesCoercible(data.lines) THEN
        \* float() / int() raises and nothing catches it
        /\ Reply("create_invoice", NoId, data, 500, Error("Internal Server Error"))
        /\ UNCHANGED <<items, issued, receipts, invoices, now>>
    ELSE
        LET reads_clock == data.printedAt.kind # "num"
            printed_at == IF reads_clock THEN t ELSE data.printedAt.v
            invoice == [lines |-> norm_lines(data.lines),
                        taxRate |-> OrZero(data.taxRate),
                        discountRate |-> OrZero(data.discountRate),
                        number |-> data.number,
                        printedAt |-> printed_at,
                        customerName |-> data.customerName,
                        customerPhone |-> data.customerPhone,
                        createdBy |-> data.createdBy] IN
        /\ IF reads_clock THEN t >= now /\ now' = t ELSE UNCHANGED now
        /\ items' = IF data.applyStockChange
                    THEN apply_stock_change(items, invoice.lines)
                    ELSE items
        /\ invoices' = Append(invoices, invoice)
        /\ \E totals \in compute_invoice_totals(invoice) :
               Reply("create_invoice", NoId, data, 201,
                     invoice_to_dict(Len(invoices) + 1, invoice, totals))
        /\ UNCHANGED <<issued, receipts>>

create_invoice_sells_first(data, t) ==
    IF /\ data.number = "" /\ data.lines # <<>>
       /\ LinesCoercible(data.lines) /\ data.applyStockChange THEN
        /\ items' = apply_stock_change(items, norm_lines(data.lines))
        /\ Reply("create_invoice", NoId, data, 400, Error("number and lines are required"))
        /\ UNCHANGED <<issued, receipts, invoices, now>>
    ELSE create_invoice_checked(data, t)
\* POST /api/invoices: validation, normalisation, stock change, insert
create_invoice(data, t) == create_invoice_checked(data, t)

get_invoice(invoice_id) ==
    /\ IF ~IsObjectId(invoice_id) THEN
           Reply("get_invoice", invoice_id, <<>>, 400, Error("Invalid invoice id"))
       ELSE IF invoice_id \notin DOMAIN invoices THEN
           Reply("get_invoice", invoice_id, <<>>, 404, Error("Invoice not found"))
       ELSE
           \E totals \in compute_invoice_totals(invoices[invoice_id]) :
               Reply("get_invoice", invoice_id, <<>>, 200,
                     invoice_to_dict(invoice_id, invoices[invoice_id], totals))
    /\ UNCHANGED <<items, issued, receipts, invoices, now>>

(***************************************************************************)
(* Listings.  A datetime is a count of clock ticks since the epoch of the  *)
(* model; the listings sort on str(datetime), a string of characters       *)
(* (given by their code points) that is compared character by character.   *)
(***************************************************************************)
\* the ticks of one second (the microseconds of a datetime, scaled)
TicksPerSecond == 2

\* the character of the decimal digit d
Digit(d) == 48 + d

\* str(datetime): the zero-padded fixed-width date and time of day, followed
\* by "." and the zero-padded fraction only when the fraction is not zero
StrTime(t) ==
    LET second == t \div TicksPerSecond
        fraction == t % TicksPerSecond
        whole == <<Digit(second \div 10), Digit(second % 10)>> IN
    IF fraction = 0 THEN whole
    ELSE whole \o <<46, Digit((fraction * 10) \div TicksPerSecond)>>

RECURSIVE StrLess(_, _)
\* a < b on Python strings: the first differing character decides, and a
\* proper prefix is smaller
StrLess(a, b) ==
    IF b = <<>> THEN FALSE
    ELSE IF a = <<>> THEN TRUE
    ELSE IF Head(a) # Head(b) THEN Head(a) < Head(b)
    ELSE StrLess(Tail(a), Tail(b))

sorts_before_strict(placed, key) == StrLess(key, placed)
\* docs.sort(key=..., reverse=True): a document stays ahead of a later
\* document unless its key is smaller; equal keys keep their original order
sorts_before(placed, key) == ~StrLess(placed, key)

RECURSIVE InsertDesc(_, _, _)
\* insert index i after every index that sorts before it
InsertDesc(sorted, i, key) ==
    IF sorted = <<>> THEN <<i>>
    ELSE IF sorts_before(key[Head(sorted)], key[i])
         THEN <<Head(sorted)>> \o InsertDesc(Tail(sorted), i, key)
         ELSE <<i>> \o sorted

RECURSIVE SortDesc(_, _)
\* docs.sort(key=..., reverse=True) on documents 1..n: the indices by
\* descending key, equal keys in their original order (the sort is stable)
SortDesc(n, key) ==
    IF n = 0 THEN <<>> ELSE InsertDesc(SortDesc(n - 1, key), n, key)

list_invoices ==
    LET order == SortDesc(Len(invoices),
                          [i \in 1..Len(invoices) |->
                              StrTime(invoices[i].printedAt)]) IN
    /\ \E totals \in [1..Len(invoices) ->
                        UNION {compute_invoice_totals(invoices[i]) :
                                   i \in 1..Len(invoices)}] :
          /\ \A i \in 1..Len(invoices) :
                 totals[i] \in compute_invoice_totals(invoices[i])
          /\ Reply("list_invoices", NoId, <<>>, 200,
                   [k \in 1..Len(order) |->
                       invoice_to_dict(order[k], invoices[order[k]],
                                       totals[order[k]])])
    /\ UNCHANGED <<items, issued, receipts, invoices, now>>

\* doc_to_dict of a stored receipt, whichever handler wrote it
receipt_doc_to_dict(id, doc) ==
    IF "previousQuantity" \in DOMAIN doc THEN receipt_to_dict(id, doc)
    ELSE [id |-> id, name |-> doc.name, sku |-> doc.sku,
          quantity |-> doc.quantity, itemId |-> doc.itemId,
          receivedAt |-> doc.receivedAt, createdAt |-> doc.createdAt,
          receivedBy |-> doc.receivedBy]

\* GET /api/receipts
receipts_get ==
    LET order == SortDesc(Len(receipts),
                          [i \in 1..Len(receipts) |->
                              StrTime(receipts[i].receivedAt)]) IN
    /\ Reply("receipts_get", NoId, <<>>, 200,
             [k \in 1..Len(order) |->
                 receipt_doc_to_dict(order[k], receipts[order[k]])])
    /\ UNCHANGED <<items, issued, receipts, invoices, now>>

\* data: [customerName, customerPhone: <<>> or <<string>>; taxRate,
\*        discountRate: JSON values; lines: <<>> or <<sequence of lines>>]
update_invoice_writes(invoice_id, data) ==
    LET has_name == data.customerName # <<>>
        has_phone == data.customerPhone # <<>>
        has_tax == data.taxRate.kind # "absent"
        has_discount == data.discountRate.kind # "absent"
        has_lines == data.lines # <<>>
        updated(doc) ==
            [lines |-> IF has_lines THEN norm_lines(data.lines[1]) ELSE doc.lines,
             taxRate |-> IF has_tax THEN OrZero(data.taxRate) ELSE doc.taxRate,
             discountRate |-> IF has_discount THEN OrZero(data.discountRate)
                              ELSE doc.discountRate,
             number |-> doc.number,
             printedAt |-> doc.printedAt,
             customerName |-> IF has_name THEN data.customerName[1]
                              ELSE doc.customerName,
             customerPhone |-> IF has_phone THEN data.customerPhone[1]
                               ELSE doc.customerPhone,
             createdBy |-> doc.createdBy]
    IN
    IF ~IsObjectId(invoice_id) THEN
        /\ Reply("update_invoice", invoice_id, data, 400, Error("Invalid invoice id"))
        /\ UNCHANGED invoices
    ELSE IF \/ ~Coercible(data.taxRate)
            \/ ~Coercible(data.discountRate)
            \/ (has_lines /\ ~LinesCoercible(data.lines[1])) THEN
        \* float() / int() raises and nothing catches it
        /\ Reply("update_invoice", invoice_id, data, 500, Error("Internal Server Error"))
        /\ UNCHANGED invoices
    ELSE IF ~(has_name \/ has_phone \/ has_tax \/ has_discount \/ has_lines) THEN
        /\ Reply("update_invoice", invoice_id, data, 400, Error("Nothing to update"))
        /\ UNCHANGED invoices
    ELSE IF invoice_id \notin DOMAIN invoices THEN
        /\ Reply("update_invoice", invoice_id, data, 404, Error("Invoice not found"))
        /\ UNCHANGED invoices
    ELSE
        LET doc == updated(invoices[invoice_id]) IN
        /\ invoices' = [invoices EXCEPT ![invoice_id] = doc]
        /\ \E totals \in compute_invoice_totals(doc) :
               Reply("update_invoice", invoice_id, data, 200,
                     invoice_to_dict(invoice_id, doc, totals))

update_invoice_restocks(invoice_id, data) ==
    /\ update_invoice_writes(invoice_id, data)
    /\ items' = IF response'.status = 200 /\ data.lines # <<>>
                THEN apply_stock_change(items, norm_lines(data.lines[1]))
                ELSE items
    /\ UNCHANGED <<issued, receipts, now>>
\* PUT /api/invoices/<id>: only invoices_col is written
update_invoice(invoice_id, data) ==
    /\ update_invoice_writes(invoice_id, data)
    /\ UNCHANGED <<items, issued, receipts, now>>

(***************************************************************************)
(* The ledger handlers step by step.  The server answers each request on   *)
(* a thread of its own, and a handler reaches the store through separate   *)
(* calls: find_one, update_one, insert_one.  A step is the code of one     *)
(* handler up to and including its next call on the store; the steps of    *)
(* the calls in progress interleave.                                       *)
(***************************************************************************)
\* items_col.find_one({"_id": oid}): <<doc>>, or <<>> for None
find_one(its, oid) == IF oid \in DOMAIN its THEN <<its[oid]>> ELSE <<>>

\* items_col.update_one({"_id": oid}, {"$set": {"quantity": q}})
update_one(its, oid, q) ==
    IF oid \in DOMAIN its THEN SetQuantity(its, oid, q) ELSE its

update_operand_current(doc, stored) == stored
\* the document a new quantity is computed from: the one find_one returned
\* to this call, whatever the store holds by the time of update_one
update_operand(doc, stored) == doc

\* the thread's call moves on to position pc
Goto(c, pc) == inflight' = [inflight EXCEPT ![c].pc = pc]

\* the thread's call returns
Return(c, status, body) ==
    /\ Answer(inflight[c].op, inflight[c].id, inflight[c].data, status, body)
    /\ Goto(c, "done")

\* the first line from k on whose itemId is set, or past the end
RECURSIVE NextCursor(_, _)
NextCursor(lines, k) ==
    IF k > Len(lines) THEN k
    ELSE IF lines[k].itemId # NoId THEN k
    ELSE NextCursor(lines, k + 1)

\* adjust_stock from its first line to doc = items_col.find_one(...)
adjust_stock_find(c, item_id, data) ==
    /\ inflight[c].pc = "idle"
    /\ LET call == Call("adjust_stock", item_id, data, "update",
                        find_one(items, item_id), 0, 0, 0)
           failed(status, msg) ==
               /\ Answer("adjust_stock", item_id, data, status, Error(msg))
               /\ inflight' = [inflight EXCEPT ![c] = [call EXCEPT !.pc = "done",
                                                                  !.found = <<>>]]
       IN IF ~IsObjectId(item_id) THEN failed(400, "Invalid item id")
          ELSE IF ~Coercible(data.delta) THEN failed(400, "Bad delta value")
          ELSE IF call.found = <<>> THEN failed(404, "Item not found")
          ELSE /\ inflight' = [inflight EXCEPT ![c] = call]
               /\ UNCHANGED <<request, response>>
    /\ UNCHANGED <<items, issued, receipts, invoices, now>>

\* new_qty = max(0, ...); items_col.update_one(...)
adjust_stock_update(c) ==
    LET call == inflight[c]
        delta == OrZero(call.data.delta)
        doc == update_operand(call.found[1], items[call.id]) IN
    /\ call.op = "adjust_stock"
    /\ call.pc = "update"
    /\ items' = update_one(items, call.id, adjust_new_qty(doc, delta))
    /\ Goto(c, IF adjust_records_receipt(delta) THEN "insert" ELSE "reply")
    /\ UNCHANGED <<issued, receipts, invoices, now, request, response>>

\* now = datetime.utcnow(); receipts_col.insert_one(receipt_doc)
adjust_stock_insert(c, t) ==
    LET call == inflight[c] IN
    /\ call.op = "adjust_stock"
    /\ call.pc = "insert"
    /\ t >= now
    /\ now' = t
    /\ receipts' = Append(receipts,
           adjust_receipt_doc(call.id, call.found[1], OrZero(call.data.delta),
                              OrNone(call.data.changedBy), t))
    /\ inflight' = [inflight EXCEPT ![c].pc = "reply",
                                    ![c].inserted = Len(receipts) + 1]
    /\ UNCHANGED <<items, issued, invoices, request, response>>

\* updated = items_col.find_one(...); return jsonify(doc_to_dict(updated))
adjust_stock_reply(c) ==
    LET call == inflight[c]
        updated == find_one(items, call.id) IN
    /\ call.op = "adjust_stock"
    /\ call.pc = "reply"
    /\ Return(c, 200, IF updated = <<>> THEN <<>>
                      ELSE doc_to_dict(call.id, updated[1]))
    /\ UNCHANGED <<items, issued, receipts, invoices, now>>

\* POST /api/receipts from its first line to doc = items_col.find_one(...)
receipts_post_find(c, data) ==
    /\ inflight[c].pc = "idle"
    /\ LET call == Call("receipts_post", data.itemId, data, "update",
                        find_one(items, data.itemId), 0, 0, 0)
           failed(status, msg) ==
               /\ Answer("receipts_post", data.itemId, data, status, Error(msg))
               /\ inflight' = [inflight EXCEPT ![c] = [call EXCEPT !.pc = "done",
                                                                  !.found = <<>>]]
       IN IF data.itemId = NoId THEN failed(400, "itemId is required")
          ELSE IF ~IsObjectId(data.itemId) THEN failed(400, "Invalid itemId")
          ELSE IF ~Coercible(data.quantity) THEN failed(400, "Bad quantity value")
          ELSE IF receive_rejects(OrZero(data.quantity))
               THEN failed(400, "quantity must be > 0")
          ELSE IF call.found = <<>> THEN failed(404, "Item not found")
          ELSE /\ inflight' = [inflight EXCEPT ![c] = call]
               /\ UNCHANGED <<request, response>>
    /\ UNCHANGED <<items, issued, receipts, invoices, now>>

\* old_qty, new_qty; items_col.update_one(...)
receipts_post_update(c) ==
    LET call == inflight[c]
        doc == update_operand(call.found[1], items[call.id])
        old_qty == doc.quantity IN
    /\ call.op = "receipts_post"
    /\ call.pc = "update"
    /\ items' = update_one(items, call.id,
                           Max0(old_qty + OrZero(call.data.quantity)))
    /\ Goto(c, "insert")
    /\ UNCHANGED <<issued, receipts, invoices, now, request, response>>

\* now = datetime.utcnow(); res = receipts_col.insert_one(receipt_doc)
receipts_post_insert(c, t) ==
    LET call == inflight[c]
        qty == OrZero(call.data.quantity)
        doc == call.found[1]
        old_qty == doc.quantity
        new_qty == Max0(old_qty + qty) IN
    /\ call.op = "receipts_post"
    /\ call.pc = "insert"
    /\ t >= now
    /\ now' = t
    /\ receipts' = Append(receipts,
           receive_receipt_doc(call.id, doc, qty, old_qty, new_qty,
                               OrNone(call.data.receivedBy), t))
    /\ inflight' = [inflight EXCEPT ![c].pc = "reply",
                                    ![c].inserted = Len(receipts) + 1]
    /\ UNCHANGED <<items, issued, invoices, request, response>>

\* updated_item = items_col.find_one(...); return both
receipts_post_reply(c) ==
    LET call == inflight[c]
        updated_item == find_one(items, call.id) IN
    /\ call.op = "receipts_post"
    /\ call.pc = "reply"
    /\ Return(c, 201,
              [updatedItem |-> IF updated_item = <<>> THEN <<>>
                               ELSE doc_to_dict(call.id, updated_item[1]),
               receipt |-> receipt_to_dict(call.inserted,
                                           receipts[call.inserted])])
    /\ UNCHANGED <<items, issued, receipts, invoices, now>>

\* the invoice document create_invoice builds from a request
invoice_doc(data, printed_at) ==
    [lines |-> norm_lines(data.lines),
     taxRate |-> OrZero(data.taxRate),
     discountRate |-> OrZero(data.discountRate),
     number |-> data.number,
     printedAt |-> printed_at,
     customerName |-> data.customerName,
     customerPhone |-> data.customerPhone,
     createdBy |-> data.createdBy]

\* where create_invoice goes from line k of norm_lines: to the find_one of
\* the next line that has an itemId, or to the insert of the invoice
SellFrom(call, k) ==
    LET next == NextCursor(norm_lines(call.data.lines), k) IN
    [call EXCEPT !.cursor = next,
                 !.pc = IF next > Len(call.data.lines) THEN "insert" ELSE "find"]

\* POST /api/invoices from its first line to the stock loop
create_invoice_begin(c, data, t) ==
    /\ inflight[c].pc = "idle"
    /\ LET reads_clock == data.printedAt.kind # "num"
           call == Call("create_invoice", NoId, data, "insert", <<>>, 0, 0,
                        IF reads_clock THEN t ELSE data.printedAt.v)
           failed(status, msg) ==
               /\ Answer("create_invoice", NoId, data, status, Error(msg))
               /\ inflight' = [inflight EXCEPT ![c] = [call EXCEPT !.pc = "done",
                                                                  !.stamp = 0]]
               /\ UNCHANGED now
       IN IF data.number = "" \/ data.lines = <<>>
          THEN failed(400, "number and lines are required")
          ELSE IF \/ ~Coercible(data.taxRate)
                  \/ ~Coercible(data.discountRate)
                  \/ ~LinesCoercible(data.lines)
          THEN /\ reads_clock => t >= now
               /\ Answer("create_invoice", NoId, data, 500,
                         Error("Internal Server Error"))
               /\ inflight' = [inflight EXCEPT ![c] = [call EXCEPT !.pc = "done"]]
               /\ now' = IF reads_clock THEN t ELSE now
          ELSE /\ reads_clock => t >= now
               /\ now' = IF reads_clock THEN t ELSE now
               /\ inflight' = [inflight EXCEPT ![c] =
                                  IF data.applyStockChange THEN SellFrom(call, 1)
                                  ELSE call]
               /\ UNCHANGED <<request, response>>
    /\ UNCHANGED <<items, issued, receipts, invoices>>

\* doc = items_col.find_one({"_id": line["itemId"]})
create_invoice_find(c) ==
    LET call == inflight[c]
        line == norm_lines(call.data.lines)[call.cursor]
        doc == find_one(items, line.itemId) IN
    /\ call.op = "create_invoice"
    /\ call.pc = "find"
    /\ inflight' = [inflight EXCEPT ![c] =
                       IF doc = <<>> THEN SellFrom(call, call.cursor + 1)
                       ELSE [call EXCEPT !.pc = "update", !.found = doc]]
    /\ UNCHANGED <<items, issued, receipts, invoices, now, request, response>>

\* new_qty = max(0, ...); items_col.update_one(...)
create_invoice_update(c) ==
    LET call == inflight[c]
        line == norm_lines(call.data.lines)[call.cursor]
        doc == update_operand(call.found[1], items[line.itemId]) IN
    /\ call.op = "create_invoice"
    /\ call.pc = "update"
    /\ items' = update_one(items, line.itemId, line_new_qty(doc, line))
    /\ inflight' = [inflight EXCEPT ![c] = SellFrom(call, call.cursor + 1)]
    /\ UNCHANGED <<issued, receipts, invoices, now, request, response>>

\* res = invoices_col.insert_one(invoice); return it with its totals
create_invoice_insert(c) ==
    LET call == inflight[c]
        invoice == invoice_doc(call.data, call.stamp) IN
    /\ call.op = "create_invoice"
    /\ call.pc = "insert"
    /\ invoices' = Append(invoices, invoice)
    /\ \E totals \in compute_invoice_totals(invoice) :
           Return(c, 201, invoice_to_dict(Len(invoices) + 1, invoice, totals))
    /\ UNCHANGED <<items, issued, receipts, now>>

(***************************************************************************)
(* Bounds on the reachable states                                          *)
(***************************************************************************)
InBounds ==
    /\ issued <= MaxOid
    /\ \A i \in DOMAIN items : items[i].quantity <= MaxQty
    /\ Len(receipts) <= MaxReceipts
    /\ Len(invoices) <= MaxInv

(***************************************************************************)
(* Request builders for the specifications                                 *)
(***************************************************************************)
Actors == {"u"}

AdjustData(d, a) == [delta |-> d, changedBy |-> a]
ReceiveData(id, q, a) == [quantity |-> q, itemId |-> id, receivedBy |-> a]

\* a line of a sale; SoldLine references an item, PricedLine has a price
InLine(id, price, q) ==
    [name |-> "", sku |-> "", quantity |-> q, itemId |-> id, price |-> price]
SoldLine(id, q) == InLine(id, Num(100), Num(q))
PricedLine(cents, q) == InLine(NoId, Num(cents), Num(q))

InvoiceData(number, lines, discount, tax, apply) ==
    [lines |-> lines, taxRate |-> tax, discountRate |-> discount,
     number |-> number, printedAt |-> Absent,
     customerName |-> "c", customerPhone |-> "", createdBy |-> "u",
     applyStockChange |-> apply]

InvoicePatch(name, discount, tax, lines) ==
    [lines |-> lines, taxRate |-> tax,
     discountRate |-> discount, customerName |-> name, customerPhone |-> <<>>]

ItemData(name, qty) == [name |-> name, sku |-> "s3", quantity |-> qty]
ItemPatch(name, qty) == [name |-> name, sku |-> <<>>, quantity |-> qty]

(***************************************************************************)
(* SpecLedger: the two ledger operations alone, from non-negative stock    *)
(***************************************************************************)
\* every amount on the seeded items; an id that resolves to no item comes
\* with a zero and a positive amount
QtyInputs == {Absent, Bad} \cup {Num(n) : n \in {0 - MaxQty - 1, -1, 0, 1, 2}}
LedgerInputs ==
    ((DOMAIN SeedItems) \X QtyInputs)
        \cup ({BadId, NoId, MaxOid + 1} \X {Num(0), Num(1)})

LedgerAdjust ==
    \E in \in LedgerInputs, a \in Actors :
        /\ adjust_stock(in[1], AdjustData(in[2], a), now)
        /\ InBounds'

LedgerReceive ==
    \E in \in LedgerInputs, a \in Actors :
        /\ receipts_post(ReceiveData(in[1], in[2], a), now)
        /\ InBounds'

NextLedger == LedgerAdjust \/ LedgerReceive

SpecLedger == Init /\ [][NextLedger]_vars

(***************************************************************************)
(* SpecSale: invoices that sell stock, and their later edits               *)
(***************************************************************************)
SaleLineLists ==
    {<<SoldLine(1, 1)>>,
     <<SoldLine(1, MaxQty + 1)>>,
     <<SoldLine(1, 1), SoldLine(1, 1)>>,
     <<SoldLine(1, MaxQty + 1), SoldLine(1, -1)>>,
     <<SoldLine(BadId, 1), SoldLine(2, 1)>>,
     <<SoldLine(NoId, 1), SoldLine(MaxOid + 1, 1)>>}
InvoiceIds == {BadId, 1, MaxInv + 1}

SaleCreate ==
    \E number \in {"", "INV-1"}, lines \in SaleLineLists \cup {<<>>},
       apply \in BOOLEAN :
        /\ create_invoice(InvoiceData(number, lines, Absent, Absent, apply), now)
        /\ InBounds'

SaleUpdate ==
    \E id \in InvoiceIds, name \in {<<>>, <<"d">>},
       lines \in {<<>>} \cup {<<l>> : l \in SaleLineLists} :
        /\ update_invoice(id, InvoicePatch(name, Absent, Absent, lines))
        /\ InBounds'

NextSale == SaleCreate \/ SaleUpdate

SpecSale == Init /\ [][NextSale]_vars

(***************************************************************************)
(* SpecTotals: invoices with prices and rates, read back in every way      *)
(***************************************************************************)
PricedLineLists ==
    {<<PricedLine(10000, 1)>>,
     <<PricedLine(0, 2)>>,
     <<PricedLine(25, 1)>>,
     <<PricedLine(333, 1), PricedLine(25, 2)>>}
DiscountInputs == {Absent, Num(10), Num(150)}
TaxInputs == {Absent, Num(8)}

TotalsCreate ==
    \E lines \in PricedLineLists, d \in DiscountInputs, x \in TaxInputs :
        /\ create_invoice(InvoiceData("INV-1", lines, d, x, FALSE), now)
        /\ InBounds'

TotalsUpdate ==
    \E id \in InvoiceIds :
        /\ \/ \E lines \in PricedLineLists :
                update_invoice(id, InvoicePatch(<<>>, Absent, Absent, <<lines>>))
           \/ \E d \in DiscountInputs \cup {Bad} :
                update_invoice(id, InvoicePatch(<<>>, d, Absent, <<>>))
           \/ \E x \in TaxInputs :
                update_invoice(id, InvoicePatch(<<>>, Absent, x, <<>>))
        /\ InBounds'

TotalsGet == \E id \in InvoiceIds : get_invoice(id)

TotalsList == list_invoices

NextTotals == TotalsCreate \/ TotalsUpdate \/ TotalsGet \/ TotalsList

SpecTotals == Init /\ [][NextTotals]_vars

(***************************************************************************)
(* Spec: every exposed operation on the three collections                  *)
(***************************************************************************)
ItemIds == {BadId, 1, MaxOid + 1}

CreateItem ==
    \E name \in {" ", "n3"}, qty \in {Absent, Bad} :
        /\ create_item(ItemData(name, qty))
        /\ InBounds'

GetItem == \E id \in ItemIds : get_item(id)

UpdateItem ==
    \E in \in ({1} \X {ItemPatch(<<>>, Absent), ItemPatch(<<>>, Num(MaxQty)),
                       ItemPatch(<<>>, Num(-1)), ItemPatch(<<>>, Bad)})
               \cup ({BadId, MaxOid + 1} \X {ItemPatch(<<>>, Num(MaxQty))}) :
        /\ update_item(in[1], in[2])
        /\ InBounds'

DeleteItem == \E id \in ItemIds : delete_item(id)

AdjustStock ==
    \E in \in ({1} \X {Absent, Bad, Num(1), Num(-1)})
               \cup ({BadId, MaxOid + 1} \X {Num(1)}),
       a \in Actors :
        /\ adjust_stock(in[1], AdjustData(in[2], a), now)
        /\ InBounds'

ReceiveStock ==
    \E in \in ({1} \X {Bad, Num(0), Num(1)})
               \cup ({BadId, NoId, MaxOid + 1} \X {Num(1)}),
       a \in Actors :
        /\ receipts_post(ReceiveData(in[1], in[2], a), now)
        /\ InBounds'

CreateInvoice ==
    \E data \in {InvoiceData(number, lines, Absent, Absent, apply) :
                      number \in {"", "INV-1"},
                      lines \in {<<>>, <<SoldLine(1, 1)>>, <<SoldLine(1, -1)>>},
                      apply \in BOOLEAN}
                  \cup {InvoiceData("INV-1", <<SoldLine(1, 1)>>, Absent, Bad, TRUE)} :
        /\ create_invoice(data, now)
        /\ InBounds'

GetInvoice == \E id \in InvoiceIds : get_invoice(id)

ListInvoices == list_invoices

ListReceipts == receipts_get

UpdateInvoice ==
    \E in \in ({1} \X {InvoicePatch(<<>>, Absent, Absent, <<>>),
                       InvoicePatch(<<>>, Absent, Absent, <<<<SoldLine(1, 1)>>>>)})
               \cup ({BadId, MaxInv + 1}
                      \X {InvoicePatch(<<>>, Absent, Absent, <<<<SoldLine(1, 1)>>>>)}) :
        /\ update_invoice(in[1], in[2])
        /\ InBounds'

Next ==
    \/ CreateItem \/ GetItem \/ UpdateItem \/ DeleteItem
    \/ AdjustStock \/ ReceiveStock \/ ListReceipts
    \/ CreateInvoice \/ GetInvoice \/ ListInvoices \/ UpdateInvoice

Spec == Init /\ [][Next]_vars

(***************************************************************************)
(* SpecStore: every operation that writes a stored quantity, with          *)
(* quantities of either sign                                               *)
(***************************************************************************)
StoreQuantities == {Absent, Num(-1), Num(1)}

StoreCreateItem ==
    \E qty \in StoreQuantities :
        /\ create_item(ItemData("n3", qty))
        /\ InBounds'

StoreUpdateItem ==
    \E id \in {1, MaxOid}, qty \in StoreQuantities :
        /\ update_item(id, ItemPatch(<<>>, qty))
        /\ InBounds'

StoreAdjust ==
    \E id \in {1, MaxOid}, d \in {Num(-1), Num(1)}, a \in Actors :
        /\ adjust_stock(id, AdjustData(d, a), now)
        /\ InBounds'

StoreReceive ==
    \E id \in {1, MaxOid}, a \in Actors :
        /\ receipts_post(ReceiveData(id, Num(1), a), now)
        /\ InBounds'

StoreSell ==
    \E lines \in {<<SoldLine(1, 1)>>, <<SoldLine(MaxOid, MaxQty + 1)>>} :
        /\ create_invoice(InvoiceData("INV-1", lines, Absent, Absent, TRUE), now)
        /\ InBounds'

NextStore ==
    StoreCreateItem \/ StoreUpdateItem \/ StoreAdjust \/ StoreReceive \/ StoreSell

SpecStore == Init /\ [][NextStore]_vars

(***************************************************************************)
(* SpecListing: receipts and invoices written while the clock advances,    *)
(* and the two listings                                                    *)
(***************************************************************************)
\* a reading of datetime.utcnow(): the clock stands or has ticked
ClockReadings == {now, now + 1}

\* printedAt of a request: absent, unparseable, or an ISO-8601 timestamp
PrintedAtInputs == {Absent, Bad} \cup {Num(t) : t \in {0, MaxClock - 1}}

ListingBounds ==
    /\ Len(receipts) + Len(invoices) <= MaxListed
    /\ now <= MaxClock

ListingReceive ==
    \E t \in ClockReadings, a \in Actors :
        /\ receipts_post(ReceiveData(1, Num(1), a), t)
        /\ ListingBounds'

ListingAdjust ==
    \E t \in ClockReadings, a \in Actors :
        /\ adjust_stock(2, AdjustData(Num(1), a), t)
        /\ ListingBounds'

ListingCreate ==
    \E t \in ClockReadings, p \in PrintedAtInputs :
        /\ create_invoice([InvoiceData("INV-1", <<PricedLine(25, 1)>>,
                                       Absent, Absent, FALSE)
                              EXCEPT !.printedAt = p], t)
        /\ ListingBounds'

ListingReceipts == receipts_get

ListingInvoices == list_invoices

NextListing ==
    \/ ListingReceive \/ ListingAdjust \/ ListingCreate
    \/ ListingReceipts \/ ListingInvoices

SpecListing == Init /\ [][NextListing]_vars

(***************************************************************************)
(* SpecRace: two requests to the ledger, one on each thread, their steps   *)
(* interleaved in every way                                                *)
(***************************************************************************)
RaceAdjustInputs ==
    ({1} \X {Num(0 - MaxQty), Num(1), Num(MaxQty), Bad})
        \cup ({2, MaxOid + 1} \X {Num(1)})
RaceReceiveInputs == ({1} \X {Num(0), Num(1)}) \cup ({2} \X {Num(MaxQty)})
RaceLineLists ==
    {<<SoldLine(1, 1)>>,
     <<SoldLine(NoId, 1), SoldLine(1, MaxQty + 1)>>,
     <<SoldLine(MaxOid + 1, 1), SoldLine(2, 1)>>}

RaceAdjustFind ==
    \E c \in Threads, in \in RaceAdjustInputs, a \in Actors :
        adjust_stock_find(c, in[1], AdjustData(in[2], a))
RaceAdjustUpdate == \E c \in Threads : adjust_stock_update(c)
RaceAdjustInsert == \E c \in Threads : adjust_stock_insert(c, now)
RaceAdjustReply == \E c \in Threads : adjust_stock_reply(c)

RaceReceiveFind ==
    \E c \in Threads, in \in RaceReceiveInputs, a \in Actors :
        receipts_post_find(c, ReceiveData(in[1], in[2], a))
RaceReceiveUpdate == \E c \in Threads : receipts_post_update(c)
RaceReceiveInsert == \E c \in Threads : receipts_post_insert(c, now)
RaceReceiveReply == \E c \in Threads : receipts_post_reply(c)

RaceSellBegin ==
    \E c \in Threads,
       data \in {InvoiceData("INV-1", lines, Absent, Absent, TRUE) :
                     lines \in RaceLineLists}
                 \cup {InvoiceData("", <<SoldLine(1, 1)>>, Absent, Absent, TRUE),
                       InvoiceData("INV-1", <<SoldLine(1, 1)>>, Absent, Absent, FALSE)} :
        create_invoice_begin(c, data, now)
RaceSellFind == \E c \in Threads : create_invoice_find(c)
RaceSellUpdate == \E c \in Threads : create_invoice_update(c)
RaceSellInsert == \E c \in Threads : create_invoice_insert(c)

NextRace ==
    \/ RaceAdjustFind \/ RaceAdjustUpdate \/ RaceAdjustInsert \/ RaceAdjustReply
    \/ RaceReceiveFind \/ RaceReceiveUpdate \/ RaceReceiveInsert
    \/ RaceReceiveReply
    \/ RaceSellBegin \/ RaceSellFind \/ RaceSellUpdate \/ RaceSellInsert

SpecRace == Init /\ [][NextRace]_vars

(***************************************************************************)
(* Helpers for the properties                                              *)
(***************************************************************************)
\* the log after the step is the log before it plus exactly one receipt
AppendedOne == /\ Len(receipts') = Len(receipts) + 1
               /\ SubSeq(receipts', 1, Len(receipts)) = receipts
LastReceipt == receipts'[Len(receipts')]

\* the step answers a request of handler op
Handled(op) == vars' # vars /\ request'.op = op

(***************************************************************************)
(* C1. Starting from items whose quantity is >= 0, after any sequence of   *)
(* adjustStock and receiveStock calls every item's stored quantity is      *)
(* >= 0, and a delta that would take a quantity below zero leaves it at    *)
(* exactly 0.                                                              *)
(***************************************************************************)
C1_QuantityNeverNegative ==
    [][/\ \A i \in DOMAIN items' : items'[i].quantity >= 0
       /\ (/\ Handled("adjust_stock")
           /\ response'.status = 200
           /\ items[request'.id].quantity + OrZero(request'.data.delta) < 0)
          => items'[request'.id].quantity = 0]_vars

C1_Witness ==
    /\ request.op = "adjust_stock"
    /\ response.status = 200
    /\ request.data.delta = Num(0 - MaxQty - 1)
    /\ items[request.id].quantity = 0

(***************************************************************************)
(* C2. Every adjustStock call on an existing item with delta > 0 appends   *)
(* exactly one Receipt that references the item and has quantity = delta,  *)
(* previousQuantity = the quantity before the call and newQuantity = the   *)
(* quantity after the call.                                                *)
(***************************************************************************)
C2_AdjustReceiptHasBeforeAfter ==
    [][(/\ Handled("adjust_stock")
        /\ response'.status = 200
        /\ OrZero(request'.data.delta) > 0)
       => /\ AppendedOne
          /\ LastReceipt.itemId = request'.id
          /\ LastReceipt.quantity = OrZero(request'.data.delta)
          /\ "previousQuantity" \in DOMAIN LastReceipt
          /\ LastReceipt.previousQuantity = items[request'.id].quantity
          /\ "newQuantity" \in DOMAIN LastReceipt
          /\ LastReceipt.newQuantity = items'[request'.id].quantity]_vars

(***************************************************************************)
(* C3. An adjustStock call with delta <= 0 (delta = 0 and an absent delta, *)
(* read as 0, included) never appends a Receipt: the receipt log after     *)
(* the call is the receipt log before it.                                  *)
(***************************************************************************)
C3_NoReceiptOnDecrease ==
    [][(/\ Handled("adjust_stock")
        /\ Coercible(request'.data.delta)
        /\ OrZero(request'.data.delta) <= 0)
       => receipts' = receipts]_vars

C3_Witness ==
    /\ request.op = "adjust_stock"
    /\ response.status = 200
    /\ request.data.delta = Absent
    /\ Len(receipts) > 0

(***************************************************************************)
(* C4. receiveStock with quantity <= 0 (or an absent quantity) always      *)
(* fails with InvalidArgument (400), whether or not the item id resolves   *)
(* to an existing item, and leaves every item's quantity and the receipt   *)
(* log unchanged.                                                          *)
(***************************************************************************)
C4_ReceiveRejectsNonPositive ==
    [][(/\ Handled("receipts_post")
        /\ Coercible(request'.data.quantity)
        /\ OrZero(request'.data.quantity) <= 0)
       => /\ response'.status = 400
          /\ items' = items
          /\ receipts' = receipts]_vars

C4_Witness ==
    /\ request.op = "receipts_post"
    /\ request.data.quantity = Num(0)
    /\ request.data.itemId \in DOMAIN items
    /\ response.status = 400
    /\ Len(receipts) > 0

(***************************************************************************)
(* C5. receiveStock(itemId, q) with q > 0 on an existing item whose        *)
(* quantity is old sets the quantity to max(0, old + q), appends exactly   *)
(* one Receipt with that itemId, quantity = q, previousQuantity = old,     *)
(* newQuantity = the new stored quantity and the item's name/sku at call   *)
(* time, changes no other item, and returns the updated item and that      *)
(* receipt.                                                                *)
(***************************************************************************)
C5_ReceiveStockEffect ==
    [][(/\ Handled("receipts_post")
        /\ Coercible(request'.data.quantity)
        /\ OrZero(request'.data.quantity) > 0
        /\ request'.data.itemId \in DOMAIN items)
       => LET id == request'.data.itemId
              q == request'.data.quantity.v
              old == items[id].quantity
              new == IF old + q < 0 THEN 0 ELSE old + q IN
          /\ DOMAIN items' = DOMAIN items
          /\ items'[id] = [items[id] EXCEPT !.quantity = new]
          /\ \A j \in DOMAIN items \ {id} : items'[j] = items[j]
          /\ AppendedOne
          /\ LastReceipt.itemId = id
          /\ LastReceipt.quantity = q
          /\ LastReceipt.previousQuantity = old
          /\ LastReceipt.newQuantity = items'[id].quantity
          /\ LastReceipt.name = items[id].name
          /\ LastReceipt.sku = items[id].sku
          /\ response'.status = 201
          /\ response'.body.updatedItem.id = id
          /\ response'.body.updatedItem.quantity = new
          /\ response'.body.updatedItem.name = items'[id].name
          /\ response'.body.receipt.id = Len(receipts')
          /\ response'.body.receipt.itemId = id
          /\ response'.body.receipt.quantity = q
          /\ response'.body.receipt.previousQuantity = old
          /\ response'.body.receipt.newQuantity = new]_vars

C5_Witness ==
    /\ request.op = "receipts_post"
    /\ response.status = 201
    /\ response.body.receipt.previousQuantity > 0
    /\ response.body.receipt.quantity = 1
    /\ Len(receipts) = MaxReceipts
    /\ Cardinality(DOMAIN items) >= 2

(***************************************************************************)
(* C6. createInvoice with a non-empty number, at least one line and        *)
(* applyStockChange = true processes the lines in order and sets the       *)
(* quantity of every item a line resolves to to max(0, current quantity -  *)
(* line quantity); lines whose reference is absent, malformed or dangling  *)
(* change no item and do not stop the invoice from being persisted; no     *)
(* Receipt is appended; without applyStockChange no item changes.          *)
(***************************************************************************)
RECURSIVE StockAfterSale(_, _)
StockAfterSale(its, lines) ==
    IF lines = <<>> THEN its
    ELSE LET id == Head(lines).itemId
             q == Head(lines).quantity.v IN
         IF id >= 1 /\ id \in DOMAIN its
         THEN StockAfterSale(
                  [its EXCEPT ![id].quantity =
                       IF its[id].quantity - q < 0 THEN 0 ELSE its[id].quantity - q],
                  Tail(lines))
         ELSE StockAfterSale(its, Tail(lines))

C6_InvoiceSellsStock ==
    [][(/\ Handled("create_invoice")
        /\ request'.data.number # ""
        /\ request'.data.lines # <<>>)
       => /\ response'.status = 201
          /\ Len(invoices') = Len(invoices) + 1
          /\ SubSeq(invoices', 1, Len(invoices)) = invoices
          /\ Len(invoices'[Len(invoices')].lines) = Len(request'.data.lines)
          /\ receipts' = receipts
          /\ items' = IF request'.data.applyStockChange
                      THEN StockAfterSale(items, request'.data.lines)
                      ELSE items]_vars

C6_Witness ==
    /\ request.op = "create_invoice"
    /\ response.status = 201
    /\ request.data.applyStockChange
    /\ request.data.lines = <<SoldLine(1, MaxQty + 1)>>
    /\ items[1].quantity = 0
    /\ items[2].quantity > 0

(***************************************************************************)
(* C7. updateInvoice never changes any item: for every invoice id and      *)
(* every partial spec, lines replaced or not, call succeeding or failing,  *)
(* the item store and the receipt log after the call equal those before.   *)
(***************************************************************************)
C7_UpdateInvoiceLeavesStock ==
    [][Handled("update_invoice") => items' = items /\ receipts' = receipts]_vars

C7_Witness ==
    /\ request.op = "update_invoice"
    /\ response.status = 200
    /\ request.data.lines = <<<<SoldLine(1, 1)>>>>
    /\ 1 \in DOMAIN items
    /\ items[1].quantity > 0
    /\ Len(receipts) > 0

(***************************************************************************)
(* C8. The receipt log records every stock increase: every operation that  *)
(* leaves an existing item with a larger stored quantity than before also  *)
(* appends, in that operation, a Receipt referencing that item whose       *)
(* quantity equals the increase.                                           *)
(***************************************************************************)
C8_EveryIncreaseHasReceipt ==
    [][\A i \in DOMAIN items \cap DOMAIN items' :
          items'[i].quantity > items[i].quantity
          => /\ AppendedOne
             /\ LastReceipt.itemId = i
             /\ LastReceipt.quantity = items'[i].quantity - items[i].quantity]_vars

(***************************************************************************)
(* C8, amended.  Every adjustStock with delta > 0 on an existing item and  *)
(* every successful receiveStock appends, in that operation, one Receipt   *)
(* referencing that item whose quantity equals the requested amount, which *)
(* is the increase of the stored quantity whenever the quantity before was *)
(* >= 0; no other operation appends a Receipt, whatever it does to a       *)
(* stored quantity.                                                        *)
(***************************************************************************)
ReceivingStep ==
    \/ /\ Handled("adjust_stock")
       /\ response'.status = 200
       /\ OrZero(request'.data.delta) > 0
    \/ /\ Handled("receipts_post")
       /\ response'.status = 201

RequestedAmount ==
    IF request'.op = "adjust_stock" THEN request'.data.delta.v
    ELSE request'.data.quantity.v

C8_LedgerIncreaseHasReceipt ==
    [][/\ ReceivingStep
          => /\ AppendedOne
             /\ LastReceipt.itemId = request'.id
             /\ LastReceipt.quantity = RequestedAmount
             /\ items[request'.id].quantity >= 0
                => items'[request'.id].quantity - items[request'.id].quantity
                       = LastReceipt.quantity
       /\ ~ReceivingStep => receipts' = receipts]_vars

C8_Witness ==
    /\ request.op = "adjust_stock"
    /\ response.status = 200
    /\ request.data.delta = Num(1)
    /\ Len(receipts) = MaxReceipts
    /\ receipts[Len(receipts)].itemId = request.id
    /\ receipts[Len(receipts)].quantity = 1
    /\ items[request.id].quantity = MaxQty

(***************************************************************************)
(* C9. Any operation that reports InvalidArgument (400) or NotFound (404)  *)
(* changes no state: the items, receipts and invoices collections are      *)
(* exactly as they were.                                                   *)
(***************************************************************************)
C9_ErrorsChangeNothing ==
    [][response'.status \in {400, 404}
       => /\ items' = items
          /\ receipts' = receipts
          /\ invoices' = invoices]_vars

C9_Witness ==
    /\ request.op = "create_invoice"
    /\ response.status = 400
    /\ request.data.number = ""
    /\ request.data.applyStockChange
    /\ request.data.lines = <<SoldLine(1, 1)>>
    /\ 1 \in DOMAIN items
    /\ items[1].quantity > 0
    /\ Len(invoices) > 0

(***************************************************************************)
(* C10. The Totals returned with an invoice by createInvoice, getInvoice,  *)
(* listInvoices and updateInvoice are the totals formula applied to the    *)
(* invoice's currently stored lines, discountRate and taxRate, each amount *)
(* rounded to the cent: subtotal = sum of price x quantity; discountAmount *)
(* = subtotal x discountRate/100; afterDiscount = max(0, subtotal -        *)
(* discountAmount); taxAmount = afterDiscount x taxRate/100; total =       *)
(* afterDiscount + taxAmount.  Subtotal 100, discount 10, tax 8 gives      *)
(* 10.00, 90.00, 7.20 and 97.20; subtotal 0 gives total 0.                 *)
(***************************************************************************)
Abs(x) == IF x < 0 THEN 0 - x ELSE x

\* amount (in cents) is exact (in 1/unit cents) rounded to the nearest cent
RoundedTo(amount, exact, unit) == 2 * Abs(amount * unit - exact) <= unit

TotalsMatch(inv, totals) ==
    LET sub == SumLines(inv.lines)
        discount == sub * inv.discountRate
        after == IF sub * 100 - discount < 0 THEN 0 ELSE sub * 100 - discount
        tax == after * inv.taxRate IN
    /\ totals.subtotal = sub
    /\ totals.discountRate = inv.discountRate
    /\ totals.taxRate = inv.taxRate
    /\ RoundedTo(totals.discountAmount, discount, 100)
    /\ RoundedTo(totals.taxAmount, tax, 10000)
    /\ RoundedTo(totals.total, after * 100 + tax, 10000)
    /\ (sub = 10000 /\ inv.discountRate = 10 /\ inv.taxRate = 8)
       => /\ totals.discountAmount = 1000
          /\ totals.taxAmount = 720
          /\ totals.total = 9720
          /\ totals.total - totals.taxAmount = 9000
    /\ sub = 0 => totals.total = 0

ReturnedInvoiceFresh(dict) ==
    /\ dict.id \in DOMAIN invoices
    /\ dict.lines = invoices[dict.id].lines
    /\ dict.discountRate = invoices[dict.id].discountRate
    /\ dict.taxRate = invoices[dict.id].taxRate
    /\ TotalsMatch(invoices[dict.id], dict.totals)

C10_TotalsOfStoredInvoice ==
    /\ (/\ request.op \in {"create_invoice", "get_invoice", "update_invoice"}
        /\ response.status \in {200, 201})
       => ReturnedInvoiceFresh(response.body)
    /\ request.op = "list_invoices"
       => /\ Len(response.body) = Len(invoices)
          /\ \A k \in 1..Len(response.body) :
                 ReturnedInvoiceFresh(response.body[k])

C10_Witness ==
    /\ request.op = "update_invoice"
    /\ response.status = 200
    /\ request.data.discountRate = Num(10)
    /\ Len(invoices) = MaxInv
    /\ response.body.totals.subtotal = 10000
    /\ response.body.totals.discountAmount = 1000
    /\ response.body.totals.taxAmount = 720
    /\ response.body.totals.total = 9720

(***************************************************************************)
(* C11. Item quantity is never negative in any reachable state of the item *)
(* store: after any sequence of createItem and updateItem (with any        *)
(* numeric-coercible quantity), adjustStock, receiveStock and createInvoice *)
(* with applyStockChange, every stored item has a quantity >= 0.           *)
(***************************************************************************)
C11_StoredQuantityNeverNegative ==
    \A i \in DOMAIN items : items[i].quantity >= 0

(***************************************************************************)
(* C12. The receipt log is append-only: across any sequence of the exposed *)
(* operations every Receipt of one state is there, with identical fields,  *)
(* in every later state; a Receipt is added only by adjustStock with       *)
(* delta > 0 and by a successful receiveStock; deleteItem and updateItem   *)
(* leave the receipts and the invoices that reference the item present     *)
(* and unchanged.                                                          *)
(***************************************************************************)
C12_ReceiptLogAppendOnly ==
    [][/\ Len(receipts') >= Len(receipts)
       /\ SubSeq(receipts', 1, Len(receipts)) = receipts
       /\ receipts' # receipts => AppendedOne /\ ReceivingStep
       /\ (Handled("delete_item") \/ Handled("update_item"))
          => receipts' = receipts /\ invoices' = invoices]_vars

C12_Witness ==
    /\ request.op = "delete_item"
    /\ response.status = 200
    /\ request.id \notin DOMAIN items
    /\ \E k \in 1..Len(receipts) : receipts[k].itemId = request.id
    /\ \E k \in 1..Len(invoices) :
           \E j \in 1..Len(invoices[k].lines) :
               invoices[k].lines[j].itemId = request.id

(***************************************************************************)
(* C13. listReceipts returns all receipts ordered by receivedAt descending *)
(* and listInvoices all invoices ordered by printedAt descending: of two   *)
(* adjacent entries the earlier one's timestamp is >= the later one's, and *)
(* receipts with equal receivedAt appear in their creation order; neither  *)
(* listing changes any stored state.                                       *)
(***************************************************************************)
\* the entries of body are the n stored documents, each exactly once
ListsAll(body, n) ==
    /\ Len(body) = n
    /\ \A id \in 1..n : \E k \in 1..n : body[k].id = id

C13_ListingsNewestFirst ==
    [][/\ Handled("receipts_get")
          => /\ UNCHANGED <<items, issued, receipts, invoices>>
             /\ response'.status = 200
             /\ ListsAll(response'.body, Len(receipts))
             /\ \A k \in 1..Len(response'.body) :
                    LET entry == response'.body[k]
                        doc == receipts[entry.id] IN
                    /\ entry.receivedAt = doc.receivedAt
                    /\ entry.itemId = doc.itemId
                    /\ entry.quantity = doc.quantity
             /\ \A k \in 1..(Len(response'.body) - 1) :
                    LET first == response'.body[k]
                        second == response'.body[k + 1] IN
                    /\ first.receivedAt >= second.receivedAt
                    /\ first.receivedAt = second.receivedAt
                       => first.id < second.id
       /\ Handled("list_invoices")
          => /\ UNCHANGED <<items, issued, receipts, invoices>>
             /\ response'.status = 200
             /\ ListsAll(response'.body, Len(invoices))
             /\ \A k \in 1..Len(response'.body) :
                    response'.body[k].printedAt
                        = invoices[response'.body[k].id].printedAt
             /\ \A k \in 1..(Len(response'.body) - 1) :
                    response'.body[k].printedAt
                        >= response'.body[k + 1].printedAt]_vars

\* three receipts are listed, two of one instant in creation order behind a
\* newer one, beside a whole second and a fraction of it
C13_Witness ==
    /\ request.op = "receipts_get"
    /\ Len(receipts) = 3
    /\ Len(response.body) = 3
    /\ response.body[1].id = 3
    /\ response.body[2].id = 1
    /\ response.body[3].id = 2
    /\ receipts[1].receivedAt = receipts[2].receivedAt
    /\ receipts[1].receivedAt % TicksPerSecond = 0
    /\ receipts[3].receivedAt = receipts[1].receivedAt + 1
    /\ receipts[1].itemId # receipts[2].itemId

(***************************************************************************)
(* C14. The ledger's read-quantity / compute / write-quantity steps are    *)
(* not atomic: when two adjustStock, receiveStock or createInvoice calls   *)
(* on one item interleave at the store's find and update calls, each       *)
(* write stores max(0, the quantity that call read + its own amount),      *)
(* whatever was written in between, so a final state is reachable whose    *)
(* quantity reflects only one of the two amounts (last write wins); two    *)
(* positive amounts both append their Receipt, so the receipts can add up  *)
(* to more than the item's net increase; the quantity stays >= 0 in every  *)
(* interleaving.                                                           *)
(***************************************************************************)
\* the item a call at its update step writes, and the signed amount
WrittenItem(call) ==
    IF call.op = "create_invoice" THEN call.data.lines[call.cursor].itemId
    ELSE call.id

SignedAmount(call) ==
    IF call.op = "adjust_stock" THEN call.data.delta.v
    ELSE IF call.op = "receipts_post" THEN call.data.quantity.v
    ELSE 0 - call.data.lines[call.cursor].quantity.v

\* both calls have returned, each after inserting a Receipt for item id
BothReceived(calls, id) ==
    \A c \in Threads :
        /\ calls[c].pc = "done"
        /\ calls[c].inserted # 0
        /\ calls[c].id = id

C14_LastWriteWins ==
    [][/\ \A i \in DOMAIN items' : items'[i].quantity >= 0
       /\ \A c \in Threads :
              (inflight[c].pc = "update" /\ inflight'[c] # inflight[c])
              => LET id == WrittenItem(inflight[c])
                     sum == inflight[c].found[1].quantity
                                + SignedAmount(inflight[c]) IN
                 /\ items'[id].quantity = IF sum < 0 THEN 0 ELSE sum
                 /\ \A j \in DOMAIN items \ {id} : items'[j] = items[j]
       /\ \A id \in DOMAIN SeedItems :
              BothReceived(inflight', id)
              => LET d1 == SignedAmount(inflight'[1])
                     d2 == SignedAmount(inflight'[2])
                     q0 == SeedItems[id].quantity IN
                 /\ d1 > 0 /\ d2 > 0
                 /\ Len(receipts') = 2
                 /\ \A k \in 1..2 : receipts'[k].itemId = id
                 /\ receipts'[1].quantity + receipts'[2].quantity = d1 + d2
                 /\ items'[id].quantity \in {q0 + d1 + d2, q0 + d1, q0 + d2}
                 /\ receipts'[1].quantity + receipts'[2].quantity
                        >= items'[id].quantity - q0]_vars

\* an adjustStock and a receiveStock of one item have both returned and
\* both logged their Receipt, and the quantity holds one amount only
C14_Witness ==
    /\ inflight[1].op = "adjust_stock"
    /\ inflight[2].op = "receipts_post"
    /\ BothReceived(inflight, 1)
    /\ Len(receipts) = 2
    /\ receipts[1].quantity + receipts[2].quantity = MaxQty + 1
    /\ items[1].quantity - SeedItems[1].quantity = 1
    /\ items[1].quantity - SeedItems[1].quantity
           < receipts[1].quantity + receipts[2].quantity

====
